---- MODULE Spec2Model ----
(***************************************************************************)
(* Ride-partner client: the ride-matching filter and time-proximity sort  *)
(* of RideList.fetchData, and the local-storage data cache around it.     *)
(* Times are milliseconds since the epoch, as JavaScript Date holds them. *)
(***************************************************************************)
EXTENDS Integers, Sequences, FiniteSets, TLC

VARIABLES
    \* ---- match engine applied to bounded inputs
    myRides,      \* own rides, projected to {from, to, time}
    candRides,    \* candidate rides
    mNow,         \* the clock when the sort starts
    mOut,         \* outcome of filter + sort: not run, threw, or a list
    \* ---- RideList component and its environment
    storage,      \* localStorage: the three cache keys
    clock,        \* Date.now()
    user,         \* useAuth().user: a user id, or "" while there is none
    rides,        \* useState rides
    loading,      \* useState loading
    fetches,      \* the fetchData invocations in flight, oldest first
    nFetch,       \* number of fetchData invocations started
    lastStep,     \* history: what the step that led here did
    lastWrite,    \* history: the last setCacheData call that stored all keys
    \* ---- service worker and its environment
    worker,       \* lifecycle state of this version of the worker
    cacheNames,   \* caches.keys(): the names of the caches that exist
    entries,      \* the cache CACHE_NAME: request URL -> stored body
    toDelete,     \* activate: the caches.delete calls not yet settled
    claimed,      \* self.clients.claim() has been called
    skippedWaiting, \* self.skipWaiting() has been called
    events,       \* fetch events whose handler has work in flight
    nEvents,      \* number of fetch events dispatched
    lastOk,       \* history: URL -> body of its last 200 GET network response
    swLast,       \* history: what the worker step that led here did
    \* ---- the pages that change backend rows, and the backend tables
    session,      \* useAuth().user of the page: a user id, or "" for none
    page,         \* the routed page component
    tblRides,     \* backend table rides
    tblProfiles,  \* backend table profiles
    tblLogs,      \* backend table audit_logs, oldest first
    mp,           \* MyPosts: useState myRides, loading, error, deleteId
    ad,           \* AdminDashboard: useState users, rides, auditLogs, ...
    form,         \* PostRide / ProfileSetup: useState error, and onPosted/onDone
    calls,        \* the async handler invocations in flight, oldest first
    nCalls,       \* number of handler invocations and auth events so far
    lastCall,     \* history: what the page step that led here did
    deleted       \* history: rows this mounted page has deleted successfully

mvars == <<myRides, candRides, mNow, mOut>>
cvars == <<storage, clock, user, rides, loading, fetches, nFetch, lastStep,
           lastWrite>>
swvars == <<worker, cacheNames, entries, toDelete, claimed, skippedWaiting,
            events, nEvents, lastOk, swLast>>
pvars == <<session, page, tblRides, tblProfiles, tblLogs, mp, ad, form, calls,
           nCalls, lastCall, deleted>>
vars == <<myRides, candRides, mNow, mOut, storage, clock, user, rides, loading,
          fetches, nFetch, lastStep, lastWrite, worker, cacheNames, entries,
          toDelete, claimed, skippedWaiting, events, nEvents, lastOk, swLast,
          session, page, tblRides, tblProfiles, tblLogs, mp, ad, form, calls,
          nCalls, lastCall, deleted>>

(***************************************************************************)
(* JavaScript values                                                       *)
(***************************************************************************)
\* A string-valued field: a string, null, or undefined (key absent).
Str(s) == [k |-> "str", s |-> s]
NullV == [k |-> "null", s |-> ""]
UndefV == [k |-> "undefined", s |-> ""]

\* A time field: an ISO-8601 string of an instant, null, undefined, or a
\* string that Date cannot parse.
Iso(ms) == [k |-> "iso", ms |-> ms]
NullT == [k |-> "null", ms |-> 0]
UndefT == [k |-> "undefined", ms |-> 0]
BadT == [k |-> "bad", ms |-> 0]

\* A Date object or a Number: NaN or a finite value.
Num(n) == [nan |-> FALSE, v |-> n]
NaN == [nan |-> TRUE, v |-> 0]

NewDateLenient(t) == IF t.k = "iso" THEN Num(t.ms) ELSE Num(0)

\* new Date(x): null is the epoch, undefined and unparsable strings are
\* Invalid Date.
NewDate(t) ==
    CASE t.k = "iso" -> Num(t.ms)
      [] t.k = "null" -> Num(0)
      [] OTHER -> NaN

Abs(n) == IF n < 0 THEN -n ELSE n

\* Math.abs(a - b) on Dates.
AbsDiff(a, b) == IF a.nan \/ b.nan THEN NaN ELSE Num(Abs(a.v - b.v))

MsPerMinute == 1000 * 60
MsPerDay == 24 * 60 * MsPerMinute
\* The browser's zone, east of UTC (Dhaka).
TzOffsetMs == 6 * 60 * MsPerMinute

\* 23:00:00, 23:30:00, 23:30:01 local time of the epoch's day, and the
\* following local midnight.
T2300 == 23 * 60 * MsPerMinute - TzOffsetMs
T2330 == T2300 + 30 * MsPerMinute
T2330p1s == T2330 + 1000
T2400 == T2300 + 60 * MsPerMinute

\* (getFullYear, getMonth, getDate) of a Date in the local zone: the local
\* calendar day, counted from the epoch; NaN for Invalid Date.
LocalDate(d) == IF d.nan THEN NaN ELSE Num((d.v + TzOffsetMs) \div MsPerDay)

\* a === b on Numbers: NaN equals nothing.
StrictEq(a, b) == ~a.nan /\ ~b.nan /\ a.v = b.v

\* String.prototype.toLowerCase over the location labels in use.
ToLowerCase(s) ==
    CASE s = "Campus" -> "campus"
      [] s = "CAMPUS" -> "campus"
      [] s = "Kuril" -> "kuril"
      [] s = "KURIL" -> "kuril"
      [] OTHER -> s

(***************************************************************************)
(* isTimeWithinRange, isSameDay                                            *)
(***************************************************************************)
RangeInMinutes == 30

isTimeWithinRangeStrict(time1, time2) ==
    LET d == AbsDiff(NewDate(time1), NewDate(time2))
    IN  ~d.nan /\ d.v < RangeInMinutes * MsPerMinute

\* diffInMinutes <= rangeInMinutes, with diffInMinutes = |t1 - t2| / 60000
\* a real number: compared on the millisecond scale.
isTimeWithinRange(time1, time2) ==
    LET d == AbsDiff(NewDate(time1), NewDate(time2))
    IN  ~d.nan /\ d.v <= RangeInMinutes * MsPerMinute


isSameDay(date1, date2) ==
    StrictEq(LocalDate(NewDate(date1)), LocalDate(NewDate(date2)))

(***************************************************************************)
(* The filter: (rides || []).filter(ride => (myRides || []).some(...))     *)
(***************************************************************************)
IsNullish(f) == f.k # "str"

\* x.toLowerCase() throws a TypeError when x is null or undefined.  The
\* callback evaluates myRide.from, ride.from and, only when the two origins
\* are equal, myRide.to and ride.to.
FromMatches(myRide, ride) ==
    ToLowerCase(myRide.from.s) = ToLowerCase(ride.from.s)

RouteThrows(myRide, ride) ==
    \/ IsNullish(myRide.from)
    \/ IsNullish(ride.from)
    \/ /\ FromMatches(myRide, ride)
       /\ IsNullish(myRide.to) \/ IsNullish(ride.to)

routeMatchesUndirected(myRide, ride) ==
    \/ /\ FromMatches(myRide, ride)
       /\ ToLowerCase(myRide.to.s) = ToLowerCase(ride.to.s)
    \/ /\ ToLowerCase(myRide.from.s) = ToLowerCase(ride.to.s)
       /\ ToLowerCase(myRide.to.s) = ToLowerCase(ride.from.s)

routeMatches(myRide, ride) ==
    /\ FromMatches(myRide, ride)
    /\ ToLowerCase(myRide.to.s) = ToLowerCase(ride.to.s)

\* The value the some() callback returns when it does not throw.
PairMatches(myRide, ride) ==
    /\ routeMatches(myRide, ride)
    /\ isSameDay(myRide.time, ride.time)
    /\ isTimeWithinRange(myRide.time, ride.time)

\* (myRides || []).some(cb): "throw", "true" or "false"; stops at the first
\* own ride for which cb is true.
RECURSIVE SomeMatch(_, _)
SomeMatch(my, ride) ==
    IF my = <<>> THEN "false"
    ELSE IF RouteThrows(Head(my), ride) THEN "throw"
    ELSE IF PairMatches(Head(my), ride) THEN "true"
    ELSE SomeMatch(Tail(my), ride)

\* (rides || []).filter(cb): every candidate is visited in order.
RECURSIVE FilterMatched(_, _)
FilterMatched(my, cands) ==
    IF cands = <<>> THEN [threw |-> FALSE, rides |-> <<>>]
    ELSE LET s == SomeMatch(my, Head(cands))
             rest == FilterMatched(my, Tail(cands))
         IN  IF s = "throw" \/ rest.threw
             THEN [threw |-> TRUE, rides |-> <<>>]
             ELSE [threw |-> FALSE,
                   rides |-> IF s = "true" THEN <<Head(cands)>> \o rest.rides
                             ELSE rest.rides]

(***************************************************************************)
(* The sort: matchedRides.sort((a, b) => |a.time - new Date()| -           *)
(*                                       |b.time - new Date()|)            *)
(***************************************************************************)
\* What one sort sees of its host: the clock when it starts (now), the
\* number of clock reads after which the clock advances by a millisecond
\* (tickAt; never, when at least the number of reads), and the order in
\* which the engine hands a pair to comparefn (argOrder).
SortEnv(now, tickAt, argOrder) ==
    [now |-> now, tickAt |-> tickAt, argOrder |-> argOrder]

ArgOrders == {"earlierFirst", "laterFirst"}

\* The i-th evaluation of new Date() during one sort: the clock is read
\* afresh at every evaluation.
ClockRead(i, env) == Iso(IF i > env.tickAt THEN env.now + 1 ELSE env.now)

\* The comparator's value at its k-th call (k from 0): its two operands read
\* the clock one after the other.  A NaN result counts as +0 in sort.
CompareFn(a, b, k, env) ==
    LET da == AbsDiff(NewDate(a.time), NewDate(ClockRead(2 * k + 1, env)))
        db == AbsDiff(NewDate(b.time), NewDate(ClockRead(2 * k + 2, env)))
    IN  IF da.nan \/ db.nan THEN 0 ELSE da.v - db.v

\* Whether the engine moves `later` in front of `earlier`: it asks
\* comparefn(earlier, later) > 0 or comparefn(later, earlier) < 0.
MovesBefore(earlier, later, k, env) ==
    IF env.argOrder = "earlierFirst"
    THEN CompareFn(earlier, later, k, env) > 0
    ELSE CompareFn(later, earlier, k, env) < 0

\* Array.prototype.sort is stable for a consistent comparator; modelled as
\* insertion sort.  Returns the array and the number of comparator calls.
RECURSIVE InsertSorted(_, _, _, _)
InsertSorted(pre, x, k, env) ==
    IF pre = <<>> THEN [arr |-> <<x>>, k |-> k]
    ELSE LET last == pre[Len(pre)]
         IN  IF MovesBefore(last, x, k, env)
             THEN LET r == InsertSorted(SubSeq(pre, 1, Len(pre) - 1), x, k + 1, env)
                  IN  [arr |-> Append(r.arr, last), k |-> r.k]
             ELSE [arr |-> Append(pre, x), k |-> k + 1]

RECURSIVE SortFrom(_, _, _, _)
SortFrom(done, todo, k, env) ==
    IF todo = <<>> THEN done
    ELSE LET r == InsertSorted(done, Head(todo), k, env)
         IN  SortFrom(r.arr, Tail(todo), r.k, env)

ArraySort(arr, env) == SortFrom(<<>>, arr, 0, env)

\* The hosts one sort of n elements can tell apart: it makes at most
\* n * (n - 1) clock reads, and none at all for fewer than two elements.
SortEnvs(now, n) ==
    IF n < 2 THEN {SortEnv(now, 0, "earlierFirst")}
    ELSE {SortEnv(now, t, ao) : t \in 0..(n * (n - 1)), ao \in ArgOrders}

\* The outcome of a filter and sort that has not run.
NotRun ==
    [threw |-> FALSE, rides |-> <<>>, ran |-> FALSE,
     env |-> SortEnv(0, 0, "earlierFirst")]

\* Lines 143-164 of fetchData: filter, then sort.  A TypeError in the
\* filter leaves the try block before the sort.
MatchAndSort(my, cands, env) ==
    LET f == FilterMatched(my, cands)
    IN  IF f.threw THEN f
        ELSE [threw |-> FALSE, rides |-> ArraySort(f.rides, env)]

(***************************************************************************)
(* localStorage and the data cache: isCacheValid, getCachedData,           *)
(* setCacheData                                                            *)
(***************************************************************************)
\* A value or null.
Some(x) == [null |-> FALSE, v |-> x]
NullRides == [null |-> TRUE, v |-> <<>>]
NoProfile == [user_id |-> "", gender |-> ""]
NullProfile == [null |-> TRUE, v |-> NoProfile]
Truthy(x) == ~x.null

\* A stored item: absent, or a string that is JSON text of v or is not
\* JSON at all.
AbsentRides == [present |-> FALSE, json |-> FALSE, v |-> <<>>]
AbsentProfile == [present |-> FALSE, json |-> FALSE, v |-> NoProfile]
\* The LAST_FETCH item: absent, or a string that is the decimal form of v
\* or is not a number.
AbsentStamp == [present |-> FALSE, numeric |-> FALSE, v |-> 0]

EmptyStorage ==
    [RIDES |-> AbsentRides, PROFILE |-> AbsentProfile, LAST_FETCH |-> AbsentStamp]

\* JSON.stringify(x), as stored by setItem.
JSONStringify(x) == [present |-> TRUE, json |-> TRUE, v |-> x]
\* Date.now().toString()
NumberToString(n) == [present |-> TRUE, numeric |-> TRUE, v |-> n]
\* Number(s)
ToNumber(item) == IF item.numeric THEN Num(item.v) ELSE NaN

\* JSON.parse(localStorage.getItem(key)): getItem gives null for an absent
\* key, which parses to null; text that is not JSON throws a SyntaxError.
ParseThrows(item) == item.present /\ ~item.json
JSONParse(item, nullValue) == IF item.present THEN Some(item.v) ELSE nullValue

CACHE_EXPIRATION == 15 * 60 * 1000

isCacheValidInclusive(st, now) ==
    /\ st.LAST_FETCH.present
    /\ ~ToNumber(st.LAST_FETCH).nan
    /\ now - ToNumber(st.LAST_FETCH).v <= CACHE_EXPIRATION

\* lastFetchTime && Date.now() - Number(lastFetchTime) < CACHE_EXPIRATION
isCacheValid(st, now) ==
    /\ st.LAST_FETCH.present
    /\ ~ToNumber(st.LAST_FETCH).nan
    /\ now - ToNumber(st.LAST_FETCH).v < CACHE_EXPIRATION

\* try { parse both } catch { return { rides: null, profile: null } }
getCachedData(st) ==
    IF ParseThrows(st.RIDES) \/ ParseThrows(st.PROFILE)
    THEN [rides |-> NullRides, profile |-> NullProfile]
    ELSE [rides |-> JSONParse(st.RIDES, NullRides),
          profile |-> JSONParse(st.PROFILE, NullProfile)]

\* The three setItem calls in order; the failAt-th one throws (quota) and
\* the catch ends the call; failAt = 0: none throws.
setCacheData(st, rs, profile, now, failAt) ==
    [RIDES |-> IF failAt = 1 THEN st.RIDES ELSE JSONStringify(rs),
     PROFILE |-> IF failAt \in {1, 2} THEN st.PROFILE ELSE JSONStringify(profile),
     LAST_FETCH |-> IF failAt \in {1, 2, 3} THEN st.LAST_FETCH
                    ELSE NumberToString(now)]
SetItemFailures == {0, 1, 2, 3}

\* The refresh button while online: three removeItem calls.
clearCache(st) == EmptyStorage

(***************************************************************************)
(* The backend, as RideList queries it                                     *)
(***************************************************************************)
Users == {"u1", "u2"}
GenderOf(u) == IF u \in {"u1", "u3"} THEN "Male" ELSE "Female"

\* The instants the clock takes: a start, the last millisecond before a
\* cache written at the start expires, and its expiry.
ClockStart == T2300
ClockPool ==
    {ClockStart, ClockStart + CACHE_EXPIRATION - 1, ClockStart + CACHE_EXPIRATION}

Row(i, u, f, t, time) ==
    [id |-> i, user_id |-> u, gender |-> GenderOf(u),
     from |-> Str(f), to |-> Str(t), time |-> Iso(time)]

\* Every ride that is ever in the rides table: one of each user, and one
\* of a third user of each gender.
AllRows ==
    << Row(1, "u1", "Campus", "Kuril", T2330),
       Row(2, "u2", "Campus", "Kuril", T2330),
       Row(3, "u3", "campus", "KURIL", T2300),
       Row(4, "u4", "Campus", "Kuril", T2400 - MsPerMinute) >>

\* What a select returns: the rows in the table at that time, any of the
\* rows the query's filter admits.
Selected(Admits(_)) ==
    LET rows == SelectSeq(AllRows, Admits)
    IN  {SelectSeq(rows, LAMBDA r : r.id \in ids) :
            ids \in SUBSET {rows[i].id : i \in DOMAIN rows}}

\* .from("profiles").select("*").eq("user_id", user.id).single()
ProfileResults(u) ==
    {[kind |-> "ok", profile |-> [user_id |-> u, gender |-> g]] :
        g \in {GenderOf(u), ""}}
    \cup {[kind |-> k, profile |-> NoProfile] : k \in {"error", "throw"}}

\* .from("rides").select("time, from, to").eq("user_id", user.id)
Project(r) == [from |-> r.from, to |-> r.to, time |-> r.time]
MyRidesResults(u) ==
    {[kind |-> "ok", data |-> [i \in DOMAIN own |-> Project(own[i])]] :
        own \in Selected(LAMBDA r : r.user_id = u)}
    \cup {[kind |-> k, data |-> <<>>] : k \in {"error", "throw"}}

\* .from("rides").select("*, profiles (...)").eq("gender", profile.gender)
\*   .neq("user_id", user.id)
RidesResults(u, gender) ==
    {[kind |-> "ok", data |-> rs] :
        rs \in Selected(LAMBDA r : r.gender = gender /\ r.user_id # u)}
    \cup {[kind |-> k, data |-> <<>>] : k \in {"error", "throw"}}

(***************************************************************************)
(* The service worker: requests, responses and Cache Storage               *)
(***************************************************************************)
CACHE_NAME == "ride-partner-v2"
STATIC_ASSETS ==
    {"/", "/index.html", "/manifest.json", "/favicon.ico", "/logo192.png",
     "/logo512.png", "/static/js/main.bundle.js", "/static/css/main.css"}

\* Caches that earlier versions of the worker may have left behind.
OldCacheNames == {"ride-partner-v1", "workbox-precache"}

\* A URL string is held as the sequence of its pieces, so that startsWith
\* and includes are what they are on the string: the origin of
\* "https://ride.app.evil.net" is not "https://ride.app", but the string
\* starts with it.
SelfOrigin == <<"https://ride.app">>
LookalikeOrigin == <<"https://ride.app", ".evil.net">>
ForeignOrigin == <<"https://cdn.net">>

Url(origin, path, search) == [origin |-> origin, path |-> path, search |-> search]
\* request.url
Href(url) ==
    url.origin \o <<url.path>> \o
        (IF url.search = "" THEN <<>> ELSE <<"?", url.search>>)

\* String.prototype.startsWith
StartsWith(str, prefix) ==
    Len(str) >= Len(prefix) /\ SubSeq(str, 1, Len(prefix)) = prefix

\* String.prototype.includes("/api/"), on the pieces that occur.
PieceIncludesApi(piece) == piece \in {"/api/x", "next=/api/x"}
IncludesApi(str) == \E i \in DOMAIN str : PieceIncludesApi(str[i])

Request(url, method, mode) == [url |-> url, method |-> method, mode |-> mode]

\* The requests that pages of the site make.
RequestPool ==
    { Request(Url(SelfOrigin, "/rides", ""), "GET", "navigate"),
      Request(Url(SelfOrigin, "/rides", ""), "POST", "cors"),
      Request(Url(SelfOrigin, "/static/css/main.css", ""), "GET", "no-cors"),
      Request(Url(SelfOrigin, "/avatar.png", ""), "GET", "no-cors"),
      Request(Url(SelfOrigin, "/api/x", ""), "GET", "cors"),
      Request(Url(ForeignOrigin, "/lib.js", ""), "GET", "cors"),
      Request(Url(LookalikeOrigin, "/x", ""), "GET", "cors") }

\* Response bodies: what the server serves at one time and at a later one.
Bodies == {"b1", "b2"}
NoBody == ""

\* The URLs that are keys of the cache.
StaticKeys == {Href(Url(SelfOrigin, path, "")) : path \in STATIC_ASSETS}
Keys == StaticKeys \cup {Href(r.url) : r \in RequestPool}
EmptyCache == [k \in Keys |-> NoBody]

\* What fetch(event.request) settles to: a response, or a rejection.
NetworkFailure == [ok |-> FALSE, status |-> 0, body |-> NoBody]
NetworkResponse(status, body) == [ok |-> TRUE, status |-> status, body |-> body]
NetworkOutcomes ==
    {NetworkFailure, NetworkResponse(404, NoBody)}
    \cup {NetworkResponse(200, b) : b \in Bodies}

\* What the page gets for its request.  kind: "none" (nothing yet, or the
\* worker did not call respondWith), "network" (the network response),
\* "cache" (the entry stored for the request), "fallback" (the entry stored
\* for /index.html), "null" / "undefined" (the promise given to respondWith
\* resolved with no response).
Reply(kind, status, body) == [kind |-> kind, status |-> status, body |-> body]
NoReply == Reply("none", 0, NoBody)

\* caches.match(request): entries are matched by URL, and only for GET.
CachesMatch(names, cache, method, key) ==
    IF CACHE_NAME \in names /\ method = "GET" /\ cache[key] # NoBody
    THEN Reply("cache", 200, cache[key])
    ELSE Reply("undefined", 0, NoBody)

\* What one step of the worker did.  op: "install", "activate", "delete",
\* "claim", "fetch" (the fetch listener ran), "settle" (the network fetch of
\* a handler settled), "put" (a cache.put ran), "none".  respondWith: the
\* listener called event.respondWith for req.  net: the network outcome.
\* reply: what the page got in this step.  read: a cache was consulted.
\* put: a cache.put was issued.  seen: the body of the last 200 GET
\* network response for the URL that a page had got when the fetch event of
\* req was dispatched.
SwStep(op, req, respondWith, net, reply, read, put, seen) ==
    [op |-> op, req |-> req, respondWith |-> respondWith, net |-> net,
     reply |-> reply, read |-> read, put |-> put, seen |-> seen]
NoRequest == Request(Url(<<>>, "", ""), "", "")
LifecycleStep(op) ==
    SwStep(op, NoRequest, FALSE, NetworkFailure, NoReply, FALSE, FALSE, NoBody)

IdleWorker ==
    /\ worker = "parsed"
    /\ cacheNames = {}
    /\ entries = EmptyCache
    /\ toDelete = {}
    /\ claimed = FALSE
    /\ skippedWaiting = FALSE
    /\ events = <<>>
    /\ nEvents = 0
    /\ lastOk = EmptyCache
    /\ swLast = LifecycleStep("none")

(***************************************************************************)
(* The pages that change backend rows: data                                *)
(***************************************************************************)
\* The accounts of the backend; u1 is the admin.
Accounts == Users \cup {"u3"}
RoleOf(u) == IF u = "u1" THEN "admin" ELSE "user"
CreatedAt(u) == CASE u = "u1" -> 1 [] u = "u2" -> 2 [] OTHER -> 3

\* The routed pages: MyPosts, AdminDashboard, PostRide, ProfileSetup.
Pages == {"myposts", "admin", "post", "profile"}

\* A row of rides and a row of profiles.
RideRow(id, owner, gender) ==
    [id |-> id, user_id |-> owner, gender |-> gender, created_at |-> id]
ProfileRow(u, gender, status) ==
    [user_id |-> u, role |-> RoleOf(u), gender |-> gender, status |-> status,
     created_at |-> CreatedAt(u)]
NullRow ==
    [user_id |-> "", role |-> "", gender |-> "", status |-> "", created_at |-> 0]

\* The tables when the run starts: u3 has not chosen a gender yet.
InitialRides ==
    {RideRow(1, "u1", "Male"), RideRow(2, "u1", "Male"),
     RideRow(3, "u2", "Female")}
InitialProfiles ==
    {ProfileRow("u1", "Male", "active"), ProfileRow("u2", "Female", "active"),
     ProfileRow("u3", "", "active")}

\* .order("created_at", { ascending: false })
RECURSIVE OrderDesc(_)
OrderDesc(S) ==
    IF S = {} THEN <<>>
    ELSE LET m == CHOOSE r \in S : \A q \in S : q.created_at <= r.created_at
         IN  <<m>> \o OrderDesc(S \ {m})

\* A row of audit_logs.
LogRow(action, admin, target) ==
    [action |-> action, user_id |-> admin, target_user_id |-> target]

\* The error a failed backend request returns, and no text.
BackendMessage == "new row violates row-level security policy"
NoText == ""

\* useState of MyPosts (error: null is ""; deleteId: null is 0).
MyPostsState ==
    [myRides |-> <<>>, loading |-> TRUE, error |-> NoText, deleteId |-> 0]

\* useState of AdminDashboard (myProfile: null is NullRow).
AdminState ==
    [users |-> <<>>, rides |-> <<>>, auditLogs |-> <<>>, myProfile |-> NullRow,
     loading |-> TRUE]

\* useState of PostRide and of ProfileSetup, and whether the page has called
\* onPosted / onDone.
FormState == [error |-> NoText, done |-> FALSE]

\* What the last page step did.  op: the handler; step: "start", "resume" or
\* "end" of the invocation; issued: the backend request the step sent; ride,
\* target: the row the invocation is about; by: the signed-in user when the
\* step ran; user: the user in the closure of the invocation; mutation: how a
\* backend mutation settled in the step ("ok", "failed") or "none"; mutated:
\* the invocation's mutation had succeeded; action: its audit action.
PageStep(op, step, issued, ride, target, by, u, mutation, mutated, action) ==
    [op |-> op, step |-> step, issued |-> issued, ride |-> ride,
     target |-> target, by |-> by, user |-> u, mutation |-> mutation,
     mutated |-> mutated, action |-> action]
NoPageStep ==
    PageStep("none", "none", "none", 0, "", "", "", "none", FALSE, "")

IdleTables ==
    /\ tblRides = InitialRides
    /\ tblProfiles = InitialProfiles
    /\ tblLogs = <<>>

IdlePages ==
    /\ session = ""
    /\ page = "myposts"
    /\ IdleTables
    /\ mp = MyPostsState
    /\ ad = AdminState
    /\ form = FormState
    /\ calls = <<>>
    /\ nCalls = 0
    /\ lastCall = NoPageStep
    /\ deleted = {}

(***************************************************************************)
(* RideList: fetchData and the refresh button                              *)
(***************************************************************************)
\* fetchData invocations of one run.
MaxFetches == 2

NoUser == ""

\* What the last step did.  op: "start" (fetchData ran to its first await
\* or returned on a cache hit), "resume" (a query settled and fetchData went
\* on to the next await), "return" (a query settled and fetchData
\* returned), "buttonOnline", "buttonOffline", or "env" (the clock, a page
\* load).  path: how a fetchData that returned in
\* the step left.  issued: the queries that fetchData had issued.  myOk:
\* its own-rides query succeeded.  wrote: it called setCacheData (0: no;
\* 1: and a setItem threw; 2: and all three items were stored).
\* superseded: a fetchData that was started after it had already returned.
Step(op, path, issued, myOk, wrote) ==
    [op |-> op, path |-> path, issued |-> issued, myOk |-> myOk, wrote |-> wrote,
     superseded |-> FALSE]
EnvStep == Step("env", "none", {}, FALSE, 0)
ButtonStep(isOnline) ==
    Step(IF isOnline THEN "buttonOnline" ELSE "buttonOffline", "none", {},
         FALSE, 0)

\* The last setCacheData call in which no setItem threw: the clock then and
\* its arguments.
NoWrite == [any |-> FALSE, at |-> 0, rides |-> <<>>, profile |-> NoProfile]

IdleRideList ==
    /\ storage = EmptyStorage
    /\ clock = ClockStart
    /\ user = NoUser
    /\ rides = <<>>
    /\ loading = TRUE
    /\ fetches = <<>>
    /\ nFetch = 0
    /\ lastStep = EnvStep
    /\ lastWrite = NoWrite

IdleMatch ==
    myRides = <<>> /\ candRides = <<>> /\ mNow = 0 /\ mOut = NotRun

Init ==
    /\ IdleRideList
    /\ IdleMatch
    /\ IdleWorker
    /\ IdlePages

\* A fetchData suspended at an await: the user object it closed over, the
\* query it awaits, and its locals.
Pending(u, pc, profile, my, myOk) ==
    [user |-> u, pc |-> pc, profile |-> profile, myRides |-> my, myOk |-> myOk,
     superseded |-> FALSE]

\* A fetchData started after the first n - 1 in flight has returned: those
\* are superseded from now on.
Supersede(q, n) ==
    [k \in DOMAIN q |-> IF k < n THEN [q[k] EXCEPT !.superseded = TRUE] ELSE q[k]]

RemoveAt(q, i) == SubSeq(q, 1, i - 1) \o SubSeq(q, i + 1, Len(q))
ReplaceAt(q, i, x) == [q EXCEPT ![i] = x]

QueriesIssuedAt(pc) ==
    CASE pc = "profile" -> {"profile"}
      [] pc = "myRides" -> {"profile", "myRides"}
      [] pc = "rides" -> {"profile", "myRides", "rides"}

ReturnWithoutFinally(shown) ==
    /\ rides' = IF shown.null THEN rides ELSE shown.v
    /\ loading' = IF shown.null THEN loading ELSE FALSE

\* fetchData returns: setRides(shown) unless shown is null, and finally
\* setLoading(false).
Return(shown) ==
    /\ rides' = IF shown.null THEN rides ELSE shown.v
    /\ loading' = FALSE

\* The fetchData at position i returns after the await it was at.
ReturnAt(i, path, shown, wrote) ==
    /\ Return(shown)
    /\ fetches' = RemoveAt(Supersede(fetches, i), i)
    /\ lastStep' = [Step("return", path, QueriesIssuedAt(fetches[i].pc),
                         fetches[i].myOk, wrote)
                        EXCEPT !.superseded = fetches[i].superseded]

\* It goes on to its next await.
ResumeAt(i, f) ==
    /\ fetches' = ReplaceAt(fetches, i, f)
    /\ lastStep' = Step("resume", "none", QueriesIssuedAt(f.pc), f.myOk, 0)
    /\ UNCHANGED <<rides, loading>>

\* The catch block: fall back to the cached rides, if any.
Catch(i) == ReturnAt(i, "threw", getCachedData(storage).rides, 0)

cacheHitNonEmpty(st, now) ==
    /\ isCacheValid(st, now)
    /\ Truthy(getCachedData(st).rides) /\ getCachedData(st).rides.v # <<>>
    /\ Truthy(getCachedData(st).profile)

\* if (isCacheValid()) { ...; if (cachedRides && cachedProfile) ... }
cacheHit(st, now) ==
    /\ isCacheValid(st, now)
    /\ Truthy(getCachedData(st).rides)
    /\ Truthy(getCachedData(st).profile)

\* useEffect on [user]: the auth context delivers a user object and
\* fetchData runs up to its first await.  A RideList that this mounts (there
\* was no user) starts from its initial state.
SetUser(u) ==
    /\ nFetch < MaxFetches
    /\ user' = u
    /\ nFetch' = nFetch + 1
    /\ IF cacheHit(storage, clock)
       THEN /\ Return(getCachedData(storage).rides)
            /\ lastStep' = Step("start", "cacheHit", {}, FALSE, 0)
            /\ fetches' = Supersede(fetches, Len(fetches) + 1)
       ELSE /\ fetches' = Append(fetches, Pending(u, "profile", NoProfile, <<>>, FALSE))
            /\ lastStep' = Step("start", "none", {"profile"}, FALSE, 0)
            /\ rides' = IF user = NoUser THEN <<>> ELSE rides
            /\ loading' = TRUE
    /\ UNCHANGED <<storage, clock, lastWrite>>
    /\ UNCHANGED <<mvars, swvars, pvars>>

\* The profile query settles.
ProfileResponse(i, res) ==
    /\ fetches[i].pc = "profile"
    /\ CASE res.kind = "throw" -> Catch(i)
         [] res.kind = "error" -> ReturnAt(i, "profileError", NullRides, 0)
         [] res.kind = "ok" /\ res.profile.gender = "" ->
              ReturnAt(i, "noGender", NullRides, 0)
         [] OTHER ->
              ResumeAt(i, [fetches[i] EXCEPT !.pc = "myRides",
                                             !.profile = res.profile])
    /\ UNCHANGED <<storage, clock, user, nFetch, lastWrite>>
    /\ UNCHANGED <<mvars, swvars, pvars>>

\* The own-rides query settles: its error is not looked at, its data is.
MyRidesResponse(i, res) ==
    /\ fetches[i].pc = "myRides"
    /\ IF res.kind = "throw"
       THEN Catch(i)
       ELSE ResumeAt(i, [fetches[i] EXCEPT !.pc = "rides", !.myRides = res.data,
                                           !.myOk = (res.kind = "ok")])
    /\ UNCHANGED <<storage, clock, user, nFetch, lastWrite>>
    /\ UNCHANGED <<mvars, swvars, pvars>>

AfterSetCacheDataRethrowing(i, sortedRides, failAt) ==
    IF failAt = 0
    THEN ReturnAt(i, "success", Some(sortedRides), 2)
    ELSE ReturnAt(i, "threw", getCachedData(storage').rides, 1)

\* setCacheData has returned, its catch having swallowed a setItem error if
\* there was one: setRides(sortedRides || []).
AfterSetCacheData(i, sortedRides, failAt) ==
    ReturnAt(i, "success", Some(sortedRides), IF failAt = 0 THEN 2 ELSE 1)

\* The candidate query settles: match, sort, setCacheData, setRides.
RidesResponse(i, res, env) ==
    /\ fetches[i].pc = "rides"
    /\ LET f == fetches[i]
           out == MatchAndSort(f.myRides, res.data, env)
       IN  CASE res.kind = "throw" \/ (res.kind = "ok" /\ out.threw) ->
                  Catch(i) /\ UNCHANGED <<storage, lastWrite>>
             [] res.kind = "error" ->
                  /\ ReturnAt(i, "ridesError", NullRides, 0)
                  /\ UNCHANGED <<storage, lastWrite>>
             [] OTHER ->
                  /\ \E failAt \in SetItemFailures :
                       /\ storage' = setCacheData(storage, out.rides, f.profile,
                                                  clock, failAt)
                       /\ lastWrite' =
                             IF failAt = 0
                             THEN [any |-> TRUE, at |-> clock, rides |-> out.rides,
                                   profile |-> f.profile]
                             ELSE lastWrite
                       /\ AfterSetCacheData(i, out.rides, failAt)
    /\ UNCHANGED <<clock, user, nFetch>>
    /\ UNCHANGED <<mvars, swvars, pvars>>

\* The refresh button.  isOnline is what the online/offline events last
\* set it to: either value, at any press.  Online: clear the cache and
\* reload the page, which has no user until the session is restored.
\* Offline: show the cached rides, if any.
RefreshButton(isOnline) ==
    /\ user # NoUser
    /\ IF isOnline
       THEN /\ storage' = clearCache(storage)
            /\ fetches' = <<>>
            /\ user' = NoUser
            /\ rides' = <<>>
            /\ loading' = TRUE
       ELSE /\ LET cachedRides == getCachedData(storage).rides
               IN  rides' = IF Truthy(cachedRides) THEN cachedRides.v ELSE rides
            /\ UNCHANGED <<storage, fetches, user, loading>>
    /\ lastStep' = ButtonStep(isOnline)
    /\ UNCHANGED <<clock, nFetch, lastWrite>>
    /\ UNCHANGED <<mvars, swvars, pvars>>

\* The page is loaded anew (a browser reload, a later visit): the script's
\* state is gone, localStorage is not.
PageLoad ==
    /\ user # NoUser
    /\ fetches' = <<>>
    /\ user' = NoUser
    /\ rides' = <<>>
    /\ loading' = TRUE
    /\ lastStep' = EnvStep
    /\ UNCHANGED <<storage, clock, nFetch, lastWrite>>
    /\ UNCHANGED <<mvars, swvars, pvars>>

\* Time passes.
Tick ==
    /\ \E t \in ClockPool : t > clock /\ clock' = t
    /\ lastStep' = EnvStep
    /\ UNCHANGED <<storage, user, rides, loading, fetches, nFetch, lastWrite>>
    /\ UNCHANGED <<mvars, swvars, pvars>>

Next ==
    \/ \E u \in Users : SetUser(u)
    \/ \E i \in DOMAIN fetches :
         \E res \in ProfileResults(fetches[i].user) : ProfileResponse(i, res)
    \/ \E i \in DOMAIN fetches :
         \E res \in MyRidesResults(fetches[i].user) : MyRidesResponse(i, res)
    \/ \E i \in DOMAIN fetches :
         \E res \in RidesResults(fetches[i].user, fetches[i].profile.gender) :
           \E env \in SortEnvs(clock,
                       Len(FilterMatched(fetches[i].myRides, res.data).rides)) :
             RidesResponse(i, res, env)
    \/ \E isOnline \in BOOLEAN : RefreshButton(isOnline)
    \/ PageLoad
    \/ Tick

Spec == Init /\ [][Next]_vars

\* A query that a fetchData awaits settles.
QuerySettles ==
    \/ \E i \in DOMAIN fetches :
         \E res \in ProfileResults(fetches[i].user) : ProfileResponse(i, res)
    \/ \E i \in DOMAIN fetches :
         \E res \in MyRidesResults(fetches[i].user) : MyRidesResponse(i, res)
    \/ \E i \in DOMAIN fetches :
         \E res \in RidesResults(fetches[i].user, fetches[i].profile.gender) :
           \E env \in SortEnvs(clock,
                       Len(FilterMatched(fetches[i].myRides, res.data).rides)) :
             RidesResponse(i, res, env)

\* Every supabase query settles, with data, with an error or by rejecting.
SpecLive == Spec /\ WF_vars(QuerySettles)

\* What RideList renders above the grid of rides.
Panel(isLoading, shown, isOnline) ==
    IF isLoading THEN "spinner"
    ELSE IF Len(shown) = 0
         THEN IF ~isOnline THEN "You're offline" ELSE "No matches found"
         ELSE "none"

(***************************************************************************)
(* The match engine on bounded inputs                                      *)
(***************************************************************************)
\* The rides of one run: own rides and candidates together.
MaxRides == 3

WellTimes == {Iso(T2300), Iso(T2330), Iso(T2330p1s), Iso(T2400)}
Routes == {<<"Campus", "Kuril">>, <<"campus", "KURIL">>, <<"Kuril", "Campus">>}

Shape(f, t, time) == [from |-> f, to |-> t, time |-> time]

\* Complete rides: every route at every time.
TypedShapes == {Shape(Str(r[1]), Str(r[2]), t) : r \in Routes, t \in WellTimes}

\* Rides whose timestamp does not parse, next to complete ones.
BadTimeShapes ==
    { Shape(Str("Campus"), Str("Kuril"), Iso(T2300)),
      Shape(Str("campus"), Str("KURIL"), Iso(T2330)),
      Shape(Str("Kuril"), Str("Campus"), Iso(T2300)),
      Shape(Str("Campus"), Str("Kuril"), BadT),
      Shape(Str("Kuril"), Str("Campus"), BadT) }

\* Rides with a missing field, next to two complete ones.
MissingShapes ==
    { Shape(Str("Campus"), Str("Kuril"), Iso(T2300)),
      Shape(Str("Kuril"), Str("Campus"), Iso(T2300)),
      Shape(NullV, Str("Kuril"), Iso(T2300)),
      Shape(Str("Campus"), UndefV, Iso(T2300)),
      Shape(Str("Campus"), Str("Kuril"), NullT),
      Shape(Str("Campus"), Str("Kuril"), UndefT) }

SeqsUpTo(S, n) == UNION {[1..k -> S] : k \in 0..n}

\* A candidate row: the shape plus its primary key.
Candidate(i, sh) ==
    [id |-> i, from |-> sh.from, to |-> sh.to, time |-> sh.time]

\* 23:10, between the ride times, and 00:05, after them all.
NowPool == {T2300 + 10 * MsPerMinute, T2400 + 5 * MsPerMinute}

InitMatch ==
    /\ \E pool \in {TypedShapes, BadTimeShapes, MissingShapes} :
         \E nm \in 0..MaxRides :
           /\ myRides \in [1..nm -> pool]
           /\ \E cs \in SeqsUpTo(pool, MaxRides - nm) :
                candRides = [i \in 1..Len(cs) |-> Candidate(i, cs[i])]
    /\ mNow \in NowPool
    /\ mOut = NotRun
    /\ IdleRideList
    /\ IdleWorker
    /\ IdlePages

\* One run of the filter and the sort on the inputs.
RunMatch ==
    /\ ~mOut.ran
    /\ \E env \in SortEnvs(mNow, Len(FilterMatched(myRides, candRides).rides)) :
         LET r == MatchAndSort(myRides, candRides, env)
         IN  mOut' = [threw |-> r.threw, rides |-> r.rides, ran |-> TRUE,
                      env |-> env]
    /\ UNCHANGED <<myRides, candRides, mNow>>
    /\ UNCHANGED <<cvars, swvars, pvars>>

NextMatch == RunMatch

SpecMatch == InitMatch /\ [][NextMatch]_vars

(***************************************************************************)
(* The service worker: install, activate and fetch listeners               *)
(***************************************************************************)
\* Fetch events of one run.
MaxEvents == 3

InstallOutcomeIgnoringFailures(failed) == "installed"

\* event.waitUntil(open.then(addAll).then(skipWaiting)): cache.addAll rejects
\* if the fetch of any path fails, and then neither is anything stored nor
\* does the last then run.
InstallOutcome(failed) == IF failed = {} THEN "installed" ELSE "redundant"

\* install: caches.open(CACHE_NAME), cache.addAll(STATIC_ASSETS), then
\* self.skipWaiting().  failed: the manifest paths whose fetch fails;
\* addAll stores all of them or none.
Install(failed) ==
    /\ worker = "parsed"
    /\ cacheNames' = cacheNames \cup {CACHE_NAME}
    /\ entries' = IF failed = {}
                  THEN [k \in Keys |-> IF k \in StaticKeys THEN "b1" ELSE entries[k]]
                  ELSE entries
    /\ worker' = InstallOutcome(failed)
    /\ skippedWaiting' = (worker' = "installed")
    /\ swLast' = LifecycleStep("install")
    /\ UNCHANGED <<toDelete, claimed, events, nEvents, lastOk>>
    /\ UNCHANGED <<mvars, cvars, pvars>>

CachesToDeletePreviousVersion(names) ==
    {cacheName \in names : cacheName = "ride-partner-v1"}

\* cacheNames.filter((cacheName) => cacheName !== CACHE_NAME)
CachesToDelete(names) == {cacheName \in names : cacheName # CACHE_NAME}

\* activate: caches.keys() and one caches.delete per other cache.
ActivateStart ==
    /\ worker = "installed"
    /\ worker' = "activating"
    /\ toDelete' = CachesToDelete(cacheNames)
    /\ swLast' = LifecycleStep("activate")
    /\ UNCHANGED <<cacheNames, entries, claimed, skippedWaiting, events, nEvents,
                   lastOk>>
    /\ UNCHANGED <<mvars, cvars, pvars>>

\* One caches.delete settles.
DeleteCache(cacheName) ==
    /\ cacheName \in toDelete
    /\ toDelete' = toDelete \ {cacheName}
    /\ cacheNames' = cacheNames \ {cacheName}
    /\ swLast' = LifecycleStep("delete")
    /\ UNCHANGED <<worker, entries, claimed, skippedWaiting, events, nEvents,
                   lastOk>>
    /\ UNCHANGED <<mvars, cvars, pvars>>

\* Promise.all has resolved: self.clients.claim(), and activation ends.
ClaimClients ==
    /\ worker = "activating"
    /\ toDelete = {}
    /\ claimed' = TRUE
    /\ worker' = "activated"
    /\ swLast' = LifecycleStep("claim")
    /\ UNCHANGED <<cacheNames, entries, toDelete, skippedWaiting, events, nEvents,
                   lastOk>>
    /\ UNCHANGED <<mvars, cvars, pvars>>

\* !event.request.url.startsWith(self.location.origin) is false
PassesOriginTest(req) == StartsWith(Href(req.url), SelfOrigin)

IsApiBranchNever(req) == FALSE

\* event.request.url.includes("/api/")
IsApiBranch(req) == IncludesApi(Href(req.url))

\* A handler with its network fetch or its cache.put in flight.
Handler(req, pc, body, seen) ==
    [req |-> req, branch |-> IF IsApiBranch(req) THEN "api" ELSE "other",
     pc |-> pc, body |-> body, seen |-> seen]

\* The fetch listener runs for a request of a controlled page.
FetchEvent(req) ==
    /\ worker = "activated"
    /\ nEvents < MaxEvents
    /\ nEvents' = nEvents + 1
    /\ IF PassesOriginTest(req)
       THEN /\ events' = Append(events, Handler(req, "network", NoBody,
                                                 lastOk[Href(req.url)]))
            /\ swLast' = SwStep("fetch", req, TRUE, NetworkFailure, NoReply,
                                FALSE, FALSE, lastOk[Href(req.url)])
       ELSE /\ UNCHANGED events
            /\ swLast' = SwStep("fetch", req, FALSE, NetworkFailure, NoReply,
                                FALSE, FALSE, lastOk[Href(req.url)])
    /\ UNCHANGED <<worker, cacheNames, entries, toDelete, claimed, skippedWaiting,
                   lastOk>>
    /\ UNCHANGED <<mvars, cvars, pvars>>

ShouldCacheAnyStatus(req, response) == req.method = "GET"

\* event.request.method === "GET" && response.status === 200
ShouldCache(req, response) == req.method = "GET" /\ response.status = 200

\* API branch: fetch(event.request).catch(() => caches.match(event.request))
ApiFallback(names, cache, req) ==
    CachesMatch(names, cache, req.method, Href(req.url))

IndexKey == Href(Url(SelfOrigin, "/index.html", ""))

OtherFallbackNoOfflinePage(names, cache, req) ==
    LET response == CachesMatch(names, cache, req.method, Href(req.url))
    IN  IF response.kind = "cache" THEN response ELSE Reply("null", 0, NoBody)

\* The catch of the network-first branch: the entry of the request, else
\* for a navigation the entry of "/index.html", else null.
OtherFallback(names, cache, req) ==
    LET response == CachesMatch(names, cache, req.method, Href(req.url))
        offline == CachesMatch(names, cache, "GET", IndexKey)
    IN  IF response.kind = "cache" THEN response
        ELSE IF req.mode = "navigate"
             THEN IF offline.kind = "cache"
                  THEN Reply("fallback", offline.status, offline.body)
                  ELSE offline
             ELSE Reply("null", 0, NoBody)

\* The network fetch of a handler settles: the page gets its reply, and a
\* cache.put may be left in flight.
NetworkSettles(i, net) ==
    /\ events[i].pc = "network"
    /\ LET req == events[i].req
           api == events[i].branch = "api"
           put == ~api /\ net.ok /\ ShouldCache(req, net)
           reply == IF net.ok THEN Reply("network", net.status, net.body)
                    ELSE IF api THEN ApiFallback(cacheNames, entries, req)
                    ELSE OtherFallback(cacheNames, entries, req)
       IN  /\ events' = IF put
                        THEN ReplaceAt(events, i, Handler(req, "put", net.body,
                                                          events[i].seen))
                        ELSE RemoveAt(events, i)
           /\ lastOk' = IF net.ok /\ net.status = 200 /\ req.method = "GET"
                        THEN [lastOk EXCEPT ![Href(req.url)] = net.body]
                        ELSE lastOk
           /\ swLast' = SwStep("settle", req, TRUE, net, reply, ~net.ok, put,
                               events[i].seen)
    /\ UNCHANGED <<worker, cacheNames, entries, toDelete, claimed, skippedWaiting,
                   nEvents>>
    /\ UNCHANGED <<mvars, cvars, pvars>>

\* caches.open(CACHE_NAME).then((cache) => cache.put(event.request,
\* responseToCache)) completes, after the response was returned.
CachePut(i) ==
    /\ events[i].pc = "put"
    /\ cacheNames' = cacheNames \cup {CACHE_NAME}
    /\ entries' = [entries EXCEPT ![Href(events[i].req.url)] = events[i].body]
    /\ events' = RemoveAt(events, i)
    /\ swLast' = SwStep("put", events[i].req, TRUE,
                        NetworkResponse(200, events[i].body), NoReply, FALSE, TRUE,
                        events[i].seen)
    /\ UNCHANGED <<worker, toDelete, claimed, skippedWaiting, nEvents, lastOk>>
    /\ UNCHANGED <<mvars, cvars, pvars>>

InitSW ==
    /\ IdleRideList
    /\ IdleMatch
    /\ IdlePages
    /\ worker = "parsed"
    /\ cacheNames \in SUBSET OldCacheNames
    /\ entries = EmptyCache
    /\ toDelete = {}
    /\ claimed = FALSE
    /\ skippedWaiting = FALSE
    /\ events = <<>>
    /\ nEvents = 0
    /\ lastOk = EmptyCache
    /\ swLast = LifecycleStep("none")

NextSW ==
    \/ \E failed \in {{}} \cup {{path} : path \in STATIC_ASSETS} : Install(failed)
    \/ ActivateStart
    \/ \E cacheName \in toDelete : DeleteCache(cacheName)
    \/ ClaimClients
    \/ \E req \in RequestPool : FetchEvent(req)
    \/ \E i \in DOMAIN events : \E net \in NetworkOutcomes : NetworkSettles(i, net)
    \/ \E i \in DOMAIN events : CachePut(i)

SpecSW == InitSW /\ [][NextSW]_vars

(***************************************************************************)
(* The pages that change backend rows: MyPosts, AdminDashboard, PostRide   *)
(* and ProfileSetup                                                        *)
(***************************************************************************)
\* Handler invocations and auth events of one run.
MaxCalls == 3

\* An async handler waiting for the backend.  pc: the request it awaits;
\* user: the user of its closure; ride, target: the row it is about; list:
\* the list state of its closure; gender: the gender it read; logTarget: the
\* target user it passes to addAuditLog; live: its component is still
\* mounted.
Invocation(op, pc, u, ride, target, list) ==
    [op |-> op, pc |-> pc, user |-> u, ride |-> ride, target |-> target,
     list |-> list, gender |-> "", logTarget |-> target, live |-> TRUE]

\* ProtectedRoute renders <Navigate to="/login" />: the page unmounts and the
\* invocations in flight keep running without a component to update.
Detach(q) == [i \in DOMAIN q |-> [q[i] EXCEPT !.live = FALSE]]

\* array.filter(row => row.id !== id) and its user_id counterpart
WithoutRide(list, id) ==
    LET Keep(r) == r.id # id IN SelectSeq(list, Keep)
WithoutUser(list, uid) ==
    LET Keep(r) == r.user_id # uid IN SelectSeq(list, Keep)
\* users.map(u => u.user_id === userId ? { ...u, status } : u)
WithStatus(list, uid, status) ==
    [i \in DOMAIN list |->
        IF list[i].user_id = uid THEN [list[i] EXCEPT !.status = status]
        ELSE list[i]]
Reverse(q) == [i \in DOMAIN q |-> q[Len(q) + 1 - i]]

\* .eq("user_id", u).single(): the row, or null when there is none
SingleProfile(u) ==
    IF \E r \in tblProfiles : r.user_id = u
    THEN CHOOSE r \in tblProfiles : r.user_id = u
    ELSE NullRow

\* The auth context delivers a user (or none): the effects on [user] run.
AuthChange(u) ==
    /\ nCalls < MaxCalls
    /\ ~(u = NoUser /\ session = NoUser)
    /\ session' = u
    /\ nCalls' = nCalls + 1
    /\ lastCall' = PageStep("auth", "start", "none", 0, "", u, u, "none", FALSE, "")
    /\ IF u = NoUser
       THEN /\ mp' = MyPostsState /\ ad' = AdminState /\ form' = FormState
            /\ calls' = Detach(calls)
            /\ deleted' = {}
       ELSE /\ deleted' = deleted
            /\ form' = form
            /\ CASE page = "myposts" ->
                      /\ mp' = [mp EXCEPT !.loading = TRUE, !.error = NoText]
                      /\ calls' = Append(calls,
                            Invocation("fetchMyRides", "select", u, 0, "", <<>>))
                      /\ ad' = ad
                 [] page = "admin" /\ u # session ->
                      /\ ad' = [ad EXCEPT !.loading = TRUE]
                      /\ calls' = Append(calls,
                            Invocation("fetchData", "profile", u, 0, "", <<>>))
                      /\ mp' = mp
                 [] OTHER -> UNCHANGED <<mp, ad, calls>>
    /\ UNCHANGED <<page, tblRides, tblProfiles, tblLogs>>
    /\ UNCHANGED <<mvars, cvars, swvars>>

\* ---- MyPosts
\* The query of fetchMyRides settles.
FetchMyRidesSettles(i, ok) ==
    /\ calls[i].op = "fetchMyRides"
    /\ mp' = IF ~calls[i].live THEN mp
             ELSE IF ok
             THEN [mp EXCEPT !.myRides = OrderDesc({r \in tblRides :
                                               r.user_id = calls[i].user}),
                             !.loading = FALSE]
             ELSE [mp EXCEPT !.error = "Failed to load your rides. Please try again.",
                             !.loading = FALSE]
    /\ calls' = RemoveAt(calls, i)
    /\ lastCall' = PageStep("fetchMyRides", "end", "none", 0, "", session,
                            calls[i].user, "none", FALSE, "")
    /\ UNCHANGED <<session, page, tblRides, tblProfiles, tblLogs, ad, form,
                   nCalls, deleted>>
    /\ UNCHANGED <<mvars, cvars, swvars>>

\* The Delete button of a listed ride: setDeleteId(ride.id).
ClickDelete(id) ==
    /\ page = "myposts" /\ session # NoUser /\ ~mp.loading
    /\ \E k \in DOMAIN mp.myRides : mp.myRides[k].id = id
    /\ mp.deleteId # id
    /\ mp' = [mp EXCEPT !.deleteId = id]
    /\ lastCall' = PageStep("setDeleteId", "end", "none", id, "", session,
                            session, "none", FALSE, "")
    /\ UNCHANGED <<session, page, tblRides, tblProfiles, tblLogs, ad, form,
                   calls, nCalls, deleted>>
    /\ UNCHANGED <<mvars, cvars, swvars>>

\* The Confirm button of the ride with deleteId: handleDelete(ride.id) sends
\* the delete request.
HandleDelete(id) ==
    /\ page = "myposts" /\ session # NoUser /\ ~mp.loading
    /\ nCalls < MaxCalls
    /\ mp.deleteId = id
    /\ \E k \in DOMAIN mp.myRides :
         /\ mp.myRides[k].id = id
         /\ calls' = Append(calls, Invocation("handleDelete", "mutate", session,
                                              id, mp.myRides[k].user_id,
                                              mp.myRides))
         /\ lastCall' = PageStep("handleDelete", "start", "rides.delete", id,
                                 mp.myRides[k].user_id, session, session,
                                 "none", FALSE, "")
    /\ nCalls' = nCalls + 1
    /\ UNCHANGED <<session, page, tblRides, tblProfiles, tblLogs, mp, ad, form,
                   deleted>>
    /\ UNCHANGED <<mvars, cvars, swvars>>

\* The delete request of handleDelete settles.
HandleDeleteSettles(i, ok) ==
    LET c == calls[i] IN
    /\ c.op = "handleDelete"
    /\ tblRides' = IF ok THEN {r \in tblRides : r.id # c.ride} ELSE tblRides
    /\ mp' = IF ~c.live THEN mp
             ELSE IF ok
             THEN [mp EXCEPT !.myRides = WithoutRide(c.list, c.ride),
                             !.deleteId = 0]
             ELSE [mp EXCEPT !.error = "Failed to delete the ride. Please try again."]
    /\ deleted' = IF ok /\ c.live
                  THEN deleted \cup {[ride |-> c.ride, target |-> ""]}
                  ELSE deleted
    /\ calls' = RemoveAt(calls, i)
    /\ lastCall' = PageStep("handleDelete", "end", "none", c.ride, c.target,
                            session, c.user, IF ok THEN "ok" ELSE "failed",
                            ok, "")
    /\ UNCHANGED <<session, page, tblProfiles, tblLogs, ad, form, nCalls>>
    /\ UNCHANGED <<mvars, cvars, swvars>>

\* ---- AdminDashboard
\* The profile query of fetchData settles: with the row or null, or by
\* rejecting.
FetchDataProfileSettles(i, res) ==
    LET c == calls[i]
        profile == IF res = "ok" THEN SingleProfile(c.user) ELSE NullRow
    IN
    /\ c.op = "fetchData" /\ c.pc = "profile"
    /\ IF res # "throw" /\ profile.role = "admin"
       THEN /\ ad' = IF c.live THEN [ad EXCEPT !.myProfile = profile] ELSE ad
            /\ calls' = ReplaceAt(calls, i, [c EXCEPT !.pc = "lists"])
            /\ lastCall' = PageStep("fetchData", "resume", "none", 0, "", session,
                                    c.user, "none", FALSE, "")
       ELSE /\ ad' = IF ~c.live THEN ad
                     ELSE IF res = "throw" THEN [ad EXCEPT !.loading = FALSE]
                     ELSE [ad EXCEPT !.myProfile = profile, !.loading = FALSE]
            /\ calls' = RemoveAt(calls, i)
            /\ lastCall' = PageStep("fetchData", "end", "none", 0, "", session,
                                    c.user, "none", FALSE, "")
    /\ UNCHANGED <<session, page, tblRides, tblProfiles, tblLogs, mp, form,
                   nCalls, deleted>>
    /\ UNCHANGED <<mvars, cvars, swvars>>

\* Promise.all of the users, rides and logs queries settles: each with data
\* or with null, or the whole by rejecting.
FetchDataListsSettles(i, okUsers, okRides, okLogs, throws) ==
    LET c == calls[i] IN
    /\ c.op = "fetchData" /\ c.pc = "lists"
    /\ ad' = IF ~c.live THEN ad
             ELSE IF throws THEN [ad EXCEPT !.loading = FALSE]
             ELSE [ad EXCEPT
                     !.users = IF okUsers THEN OrderDesc(tblProfiles) ELSE <<>>,
                     !.rides = IF okRides THEN OrderDesc(tblRides) ELSE <<>>,
                     !.auditLogs = IF okLogs THEN Reverse(tblLogs) ELSE <<>>,
                     !.loading = FALSE]
    /\ calls' = RemoveAt(calls, i)
    /\ lastCall' = PageStep("fetchData", "end", "none", 0, "", session, c.user,
                            "none", FALSE, "")
    /\ UNCHANGED <<session, page, tblRides, tblProfiles, tblLogs, mp, form,
                   nCalls, deleted>>
    /\ UNCHANGED <<mvars, cvars, swvars>>

\* The role guard and the spinner: the tables with their buttons render.
AdminShown ==
    /\ page = "admin" /\ session # NoUser
    /\ ad.myProfile # NullRow /\ ad.myProfile.role = "admin"
    /\ ~ad.loading

\* deleteUser, blockUser, unblockUser up to their await: the request is sent.
StartUserAction(op, request, uid) ==
    /\ AdminShown
    /\ nCalls < MaxCalls
    /\ calls' = Append(calls, Invocation(op, "mutate", session, 0, uid, ad.users))
    /\ nCalls' = nCalls + 1
    /\ lastCall' = PageStep(op, "start", request, 0, uid, session, session,
                            "none", FALSE, "")
    /\ UNCHANGED <<session, page, tblRides, tblProfiles, tblLogs, mp, ad, form,
                   deleted>>
    /\ UNCHANGED <<mvars, cvars, swvars>>

DeleteUser(uid) ==
    /\ \E k \in DOMAIN ad.users : ad.users[k].user_id = uid
    /\ StartUserAction("deleteUser", "profiles.delete", uid)

BlockUser(uid) ==
    /\ \E k \in DOMAIN ad.users :
         ad.users[k].user_id = uid /\ ad.users[k].status # "blocked"
    /\ StartUserAction("blockUser", "profiles.update", uid)

UnblockUser(uid) ==
    /\ \E k \in DOMAIN ad.users :
         ad.users[k].user_id = uid /\ ad.users[k].status = "blocked"
    /\ StartUserAction("unblockUser", "profiles.update", uid)

\* deleteRide up to its first await: the profile of the ride's owner is
\* looked up.
DeleteRide(id) ==
    /\ AdminShown
    /\ nCalls < MaxCalls
    /\ \E k \in DOMAIN ad.rides :
         /\ ad.rides[k].id = id
         /\ calls' = Append(calls, Invocation("deleteRide", "lookup", session, id,
                                              ad.rides[k].user_id, ad.rides))
    /\ nCalls' = nCalls + 1
    /\ lastCall' = PageStep("deleteRide", "start", "profiles.select", id, "",
                            session, session, "none", FALSE, "")
    /\ UNCHANGED <<session, page, tblRides, tblProfiles, tblLogs, mp, ad, form,
                   deleted>>
    /\ UNCHANGED <<mvars, cvars, swvars>>

\* The lookup settles, rideProfile is its data or null, and the delete
\* request is sent.
DeleteRideLookupSettles(i, ok) ==
    LET c == calls[i]
        rideProfile == IF ok THEN SingleProfile(c.target) ELSE NullRow
    IN
    /\ c.op = "deleteRide" /\ c.pc = "lookup"
    /\ calls' = ReplaceAt(calls, i, [c EXCEPT !.pc = "mutate",
                                              !.logTarget = rideProfile.user_id])
    /\ lastCall' = PageStep("deleteRide", "resume", "rides.delete", c.ride,
                            c.target, session, c.user, "none", FALSE, "")
    /\ UNCHANGED <<session, page, tblRides, tblProfiles, tblLogs, mp, ad, form,
                   nCalls, deleted>>
    /\ UNCHANGED <<mvars, cvars, swvars>>

ModerationOps == {"deleteUser", "blockUser", "unblockUser", "deleteRide"}

\* The action name each handler passes to addAuditLog.
AuditAction(op) ==
    CASE op = "deleteUser" -> "delete_user"
      [] op = "blockUser" -> "block_user"
      [] op = "unblockUser" -> "unblock_user"
      [] OTHER -> "delete_ride"

\* The mutation of a moderation handler settles.  On an error the handler
\* throws into its catch and ends; otherwise it sets the list from the list
\* of its closure and calls addAuditLog, which sends its insert.
MutationSettles(i, ok) ==
    LET c == calls[i] IN
    /\ c.op \in ModerationOps /\ c.pc = "mutate"
    /\ tblProfiles' =
         IF ~ok THEN tblProfiles
         ELSE CASE c.op = "deleteUser" ->
                     {r \in tblProfiles : r.user_id # c.target}
                [] c.op = "blockUser" ->
                     {IF r.user_id = c.target THEN [r EXCEPT !.status = "blocked"]
                      ELSE r : r \in tblProfiles}
                [] c.op = "unblockUser" ->
                     {IF r.user_id = c.target THEN [r EXCEPT !.status = "active"]
                      ELSE r : r \in tblProfiles}
                [] OTHER -> tblProfiles
    /\ tblRides' = IF ok /\ c.op = "deleteRide"
                   THEN {r \in tblRides : r.id # c.ride} ELSE tblRides
    /\ ad' = IF ~ok \/ ~c.live THEN ad
             ELSE CASE c.op = "deleteUser" ->
                         [ad EXCEPT !.users = WithoutUser(c.list, c.target)]
                    [] c.op = "blockUser" ->
                         [ad EXCEPT !.users = WithStatus(c.list, c.target, "blocked")]
                    [] c.op = "unblockUser" ->
                         [ad EXCEPT !.users = WithStatus(c.list, c.target, "active")]
                    [] OTHER ->
                         [ad EXCEPT !.rides = WithoutRide(c.list, c.ride)]
    /\ deleted' = IF ok /\ c.live /\ c.op = "deleteUser"
                  THEN deleted \cup {[ride |-> 0, target |-> c.target]}
                  ELSE IF ok /\ c.live /\ c.op = "deleteRide"
                  THEN deleted \cup {[ride |-> c.ride, target |-> ""]}
                  ELSE deleted
    /\ calls' = IF ok THEN ReplaceAt(calls, i, [c EXCEPT !.pc = "logInsert"])
                ELSE RemoveAt(calls, i)
    /\ lastCall' = IF ok
                   THEN PageStep(c.op, "resume", "audit_logs.insert", c.ride,
                                 c.target, session, c.user, "ok", TRUE,
                                 AuditAction(c.op))
                   ELSE PageStep(c.op, "end", "none", c.ride, c.target, session,
                                 c.user, "failed", FALSE, AuditAction(c.op))
    /\ UNCHANGED <<session, page, tblLogs, mp, form, nCalls>>
    /\ UNCHANGED <<mvars, cvars, swvars>>

\* The insert of addAuditLog settles.  On an error addAuditLog throws into
\* its own catch and returns; otherwise it selects the logs again.
AuditInsertSettles(i, ok) ==
    LET c == calls[i] IN
    /\ c.op \in ModerationOps /\ c.pc = "logInsert"
    /\ tblLogs' = IF ok
                  THEN Append(tblLogs, LogRow(AuditAction(c.op), c.user, c.logTarget))
                  ELSE tblLogs
    /\ calls' = IF ok THEN ReplaceAt(calls, i, [c EXCEPT !.pc = "logSelect"])
                ELSE RemoveAt(calls, i)
    /\ lastCall' = PageStep(c.op, IF ok THEN "resume" ELSE "end",
                            IF ok THEN "audit_logs.select" ELSE "none", c.ride,
                            c.target, session, c.user, "none", TRUE,
                            AuditAction(c.op))
    /\ UNCHANGED <<session, page, tblRides, tblProfiles, mp, ad, form, nCalls,
                   deleted>>
    /\ UNCHANGED <<mvars, cvars, swvars>>

\* The select of addAuditLog settles: setAuditLogs(logsData || []).
AuditSelectSettles(i, ok) ==
    LET c == calls[i] IN
    /\ c.op \in ModerationOps /\ c.pc = "logSelect"
    /\ ad' = IF ~c.live THEN ad
             ELSE [ad EXCEPT !.auditLogs = IF ok THEN Reverse(tblLogs) ELSE <<>>]
    /\ calls' = RemoveAt(calls, i)
    /\ lastCall' = PageStep(c.op, "end", "none", c.ride, c.target, session,
                            c.user, "none", TRUE, AuditAction(c.op))
    /\ UNCHANGED <<session, page, tblRides, tblProfiles, tblLogs, mp, form,
                   nCalls, deleted>>
    /\ UNCHANGED <<mvars, cvars, swvars>>

\* ---- PostRide
\* handlePost up to its first await, or to the return of a failed validation.
HandlePost(fields) ==
    /\ page = "post" /\ session # NoUser /\ ~form.done
    /\ nCalls < MaxCalls
    /\ nCalls' = nCalls + 1
    /\ CASE fields = "missing" ->
              /\ form' = [form EXCEPT !.error = "All fields required"]
              /\ calls' = calls
         [] fields = "past" ->
              /\ form' = [form EXCEPT
                            !.error = "Please select a future date and time"]
              /\ calls' = calls
         [] OTHER ->
              /\ form' = form
              /\ calls' = Append(calls, Invocation("handlePost", "profile",
                                                   session, 0, "", <<>>))
    /\ lastCall' = PageStep("handlePost",
                            IF fields = "ok" THEN "start" ELSE "end",
                            IF fields = "ok" THEN "profiles.select" ELSE "none",
                            0, "", session, session, "none", FALSE, "")
    /\ UNCHANGED <<session, page, tblRides, tblProfiles, tblLogs, mp, ad,
                   deleted>>
    /\ UNCHANGED <<mvars, cvars, swvars>>

\* The profile query of handlePost settles.
HandlePostProfileSettles(i, ok) ==
    LET c == calls[i]
        profile == IF ok THEN SingleProfile(c.user) ELSE NullRow
        profileError == ~ok \/ profile = NullRow
    IN
    /\ c.op = "handlePost" /\ c.pc = "profile"
    /\ IF profileError \/ profile.gender = ""
       THEN /\ form' = IF ~c.live THEN form
                       ELSE IF profileError
                       THEN [form EXCEPT
                               !.error = "Error fetching profile. Please try again."]
                       ELSE [form EXCEPT
                               !.error = "Please complete your profile setup first."]
            /\ calls' = RemoveAt(calls, i)
            /\ lastCall' = PageStep("handlePost", "end", "none", 0, "", session,
                                    c.user,
                                    IF profileError THEN "profileError"
                                    ELSE "noGender", FALSE, "")
       ELSE /\ form' = form
            /\ calls' = ReplaceAt(calls, i, [c EXCEPT !.pc = "insert",
                                                      !.gender = profile.gender])
            /\ lastCall' = PageStep("handlePost", "resume", "rides.insert", 0, "",
                                    session, c.user, "none", FALSE, "")
    /\ UNCHANGED <<session, page, tblRides, tblProfiles, tblLogs, mp, ad, nCalls,
                   deleted>>
    /\ UNCHANGED <<mvars, cvars, swvars>>

NextRideId ==
    1 + Cardinality(InitialRides) +
        Cardinality({r \in tblRides : r \notin InitialRides})

\* The insert of handlePost settles.
HandlePostInsertSettles(i, ok) ==
    LET c == calls[i] IN
    /\ c.op = "handlePost" /\ c.pc = "insert"
    /\ tblRides' = IF ok
                   THEN tblRides \cup {RideRow(NextRideId, c.user, c.gender)}
                   ELSE tblRides
    /\ form' = IF ~c.live THEN form
               ELSE IF ok THEN [form EXCEPT !.done = TRUE]
               ELSE [form EXCEPT !.error = BackendMessage]
    /\ calls' = RemoveAt(calls, i)
    /\ lastCall' = PageStep("handlePost", "end", "none", 0, "", session, c.user,
                            IF ok THEN "ok" ELSE "failed", ok, "")
    /\ UNCHANGED <<session, page, tblProfiles, tblLogs, mp, ad, nCalls, deleted>>
    /\ UNCHANGED <<mvars, cvars, swvars>>

\* ---- ProfileSetup
\* handleSave up to its first await, or to the return of a failed validation.
HandleSave(fields, avatar) ==
    /\ page = "profile" /\ session # NoUser /\ ~form.done
    /\ nCalls < MaxCalls
    /\ nCalls' = nCalls + 1
    /\ CASE fields = "missing" ->
              /\ form' = [form EXCEPT !.error = "All fields required"]
              /\ calls' = calls
         [] avatar = "large" ->
              /\ form' = [form EXCEPT
                            !.error = "File size too large. Maximum size is 10MB"]
              /\ calls' = calls
         [] avatar = "notImage" ->
              /\ form' = [form EXCEPT !.error = "Only image files are allowed"]
              /\ calls' = calls
         [] OTHER ->
              /\ form' = [form EXCEPT !.error = NoText]
              /\ calls' = Append(calls,
                    Invocation("handleSave",
                               IF avatar = "image" THEN "upload" ELSE "upsert",
                               session, 0, session, <<>>))
    /\ lastCall' = PageStep("handleSave", "start", "none", 0, session, session,
                            session, "none", FALSE, "")
    /\ UNCHANGED <<session, page, tblRides, tblProfiles, tblLogs, mp, ad,
                   deleted>>
    /\ UNCHANGED <<mvars, cvars, swvars>>

\* The upload of the avatar settles.
HandleSaveUploadSettles(i, ok) ==
    LET c == calls[i] IN
    /\ c.op = "handleSave" /\ c.pc = "upload"
    /\ form' = IF ok \/ ~c.live THEN form
               ELSE [form EXCEPT !.error = "Error uploading image. Please try again."]
    /\ calls' = IF ok THEN ReplaceAt(calls, i, [c EXCEPT !.pc = "upsert"])
                ELSE RemoveAt(calls, i)
    /\ lastCall' = PageStep("handleSave", IF ok THEN "resume" ELSE "end",
                            IF ok THEN "profiles.upsert" ELSE "none", 0,
                            c.target, session, c.user, "none", FALSE, "")
    /\ UNCHANGED <<session, page, tblRides, tblProfiles, tblLogs, mp, ad, nCalls,
                   deleted>>
    /\ UNCHANGED <<mvars, cvars, swvars>>

\* error.message || "Error updating profile. Please try again."
MessageOr(message, fallback) == IF message # "" THEN message ELSE fallback

\* The upsert of handleSave settles.
HandleSaveUpsertSettles(i, ok) ==
    LET c == calls[i]
        old == SingleProfile(c.user)
    IN
    /\ c.op = "handleSave" /\ c.pc = "upsert"
    /\ tblProfiles' =
         IF ~ok THEN tblProfiles
         ELSE {r \in tblProfiles : r.user_id # c.user} \cup
              {ProfileRow(c.user, GenderOf(c.user),
                          IF old = NullRow THEN "active" ELSE old.status)}
    /\ form' = IF ~c.live THEN form
               ELSE IF ok THEN [form EXCEPT !.done = TRUE]
               ELSE [form EXCEPT
                       !.error = MessageOr(BackendMessage,
                                   "Error updating profile. Please try again.")]
    /\ calls' = RemoveAt(calls, i)
    /\ lastCall' = PageStep("handleSave", "end", "none", 0, c.target, session,
                            c.user, IF ok THEN "ok" ELSE "failed", ok, "")
    /\ UNCHANGED <<session, page, tblRides, tblLogs, mp, ad, nCalls, deleted>>
    /\ UNCHANGED <<mvars, cvars, swvars>>

InitPages ==
    /\ IdleRideList
    /\ IdleMatch
    /\ IdleWorker
    /\ session = NoUser
    /\ page \in Pages
    /\ IdleTables
    /\ mp = MyPostsState
    /\ ad = AdminState
    /\ form = FormState
    /\ calls = <<>>
    /\ nCalls = 0
    /\ lastCall = NoPageStep
    /\ deleted = {}

NextPages ==
    \/ \E u \in Accounts \cup {NoUser} : AuthChange(u)
    \/ \E i \in DOMAIN calls : \E ok \in BOOLEAN : FetchMyRidesSettles(i, ok)
    \/ \E r \in InitialRides : ClickDelete(r.id)
    \/ \E r \in InitialRides : HandleDelete(r.id)
    \/ \E i \in DOMAIN calls : \E ok \in BOOLEAN : HandleDeleteSettles(i, ok)
    \/ \E i \in DOMAIN calls :
         \E res \in {"ok", "error", "throw"} : FetchDataProfileSettles(i, res)
    \/ \E i \in DOMAIN calls :
         \E okUsers, okRides, okLogs, throws \in BOOLEAN :
           FetchDataListsSettles(i, okUsers, okRides, okLogs, throws)
    \/ \E u \in Accounts : DeleteUser(u)
    \/ \E u \in Accounts : BlockUser(u)
    \/ \E u \in Accounts : UnblockUser(u)
    \/ \E r \in InitialRides : DeleteRide(r.id)
    \/ \E i \in DOMAIN calls : \E ok \in BOOLEAN : DeleteRideLookupSettles(i, ok)
    \/ \E i \in DOMAIN calls : \E ok \in BOOLEAN : MutationSettles(i, ok)
    \/ \E i \in DOMAIN calls : \E ok \in BOOLEAN : AuditInsertSettles(i, ok)
    \/ \E i \in DOMAIN calls : \E ok \in BOOLEAN : AuditSelectSettles(i, ok)
    \/ \E fields \in {"missing", "past", "ok"} : HandlePost(fields)
    \/ \E i \in DOMAIN calls : \E ok \in BOOLEAN : HandlePostProfileSettles(i, ok)
    \/ \E i \in DOMAIN calls : \E ok \in BOOLEAN : HandlePostInsertSettles(i, ok)
    \/ \E fields \in {"missing", "ok"} :
         \E avatar \in {"none", "large", "notImage", "image"} :
           HandleSave(fields, avatar)
    \/ \E i \in DOMAIN calls : \E ok \in BOOLEAN : HandleSaveUploadSettles(i, ok)
    \/ \E i \in DOMAIN calls : \E ok \in BOOLEAN : HandleSaveUpsertSettles(i, ok)

SpecPages == InitPages /\ [][NextPages]_vars

(***************************************************************************)
(* Claims about the match engine (SpecMatch)                               *)
(***************************************************************************)
\* A ride with from, to present and a timestamp that parses.
Complete(r) == r.from.k = "str" /\ r.to.k = "str" /\ r.time.k = "iso"
AllComplete(s) == \A i \in DOMAIN s : Complete(s[i])

\* The matching rule as the specification words it, on complete rides.
ThirtyMinutesMs == 30 * 60 * 1000
DayOf(ms) == (ms + TzOffsetMs) \div MsPerDay
RuleMatches(m, c) ==
    /\ ToLowerCase(m.from.s) = ToLowerCase(c.from.s)
    /\ ToLowerCase(m.to.s) = ToLowerCase(c.to.s)
    /\ DayOf(m.time.ms) = DayOf(c.time.ms)
    /\ Abs(m.time.ms - c.time.ms) <= ThirtyMinutesMs
RuleRetained(my, c) == \E i \in DOMAIN my : RuleMatches(my[i], c)

\* out holds exactly the candidates of cands chosen by the set keep of
\* ids, each once and unchanged.
ExactlyThese(out, cands, keep) ==
    /\ Len(out) = Cardinality(keep)
    /\ {out[i].id : i \in DOMAIN out} = keep
    /\ \A i \in DOMAIN out : out[i] = cands[out[i].id]

\* C1: on complete rides the result holds exactly the candidates that some
\* own ride matches on case-insensitive from and to, same local calendar
\* day and at most 30 minutes apart, each once and none added; so A->B
\* never retains B->A and rides straddling midnight never match.
C1_MatchIsExactlyTheRule ==
    (mOut.ran /\ AllComplete(myRides) /\ AllComplete(candRides)) =>
        /\ ~mOut.threw
        /\ ExactlyThese(mOut.rides, candRides,
              {i \in DOMAIN candRides : RuleRetained(myRides, candRides[i])})

\* A run on Campus->Kuril that drops the Kuril->Campus candidate of the same
\* time and keeps the other candidate.
C1_Witness ==
    /\ mOut.ran /\ AllComplete(myRides) /\ AllComplete(candRides)
    /\ Len(myRides) = 1 /\ Len(candRides) = 2 /\ Len(mOut.rides) = 1
    /\ myRides[1].from = Str("Campus") /\ myRides[1].to = Str("Kuril")
    /\ \E i \in DOMAIN candRides :
         /\ candRides[i].from = Str("Kuril") /\ candRides[i].to = Str("Campus")
         /\ candRides[i].time = myRides[1].time

\* C2: the window is inclusive at exactly 30 minutes: one own ride and one
\* candidate of the same route and local day match when exactly 30 minutes
\* apart and do not match when 30 minutes and 1 second apart.
C2_InclusiveAtThirtyMinutes ==
    (/\ mOut.ran /\ Len(myRides) = 1 /\ Len(candRides) = 1
     /\ AllComplete(myRides) /\ AllComplete(candRides)
     /\ ToLowerCase(myRides[1].from.s) = ToLowerCase(candRides[1].from.s)
     /\ ToLowerCase(myRides[1].to.s) = ToLowerCase(candRides[1].to.s)
     /\ DayOf(myRides[1].time.ms) = DayOf(candRides[1].time.ms)) =>
        LET d == Abs(myRides[1].time.ms - candRides[1].time.ms)
        IN  /\ d = ThirtyMinutesMs => mOut.rides = candRides
            /\ d = ThirtyMinutesMs + 1000 => mOut.rides = <<>>

C2_Witness ==
    /\ mOut.ran /\ Len(myRides) = 1 /\ Len(candRides) = 1
    /\ AllComplete(myRides) /\ AllComplete(candRides)
    /\ Abs(myRides[1].time.ms - candRides[1].time.ms) = ThirtyMinutesMs
    /\ mOut.rides = candRides

\* The distance of a ride's time from the instant n.
Proximity(r, n) == Abs(NewDate(r.time).v - n)

\* out is in ascending order of distance from n, equal distances in input
\* order (candidate ids are input positions).
StablySortedAt(out, n) ==
    \A i, j \in DOMAIN out :
        i < j =>
            \/ Proximity(out[i], n) < Proximity(out[j], n)
            \/ /\ Proximity(out[i], n) = Proximity(out[j], n)
               /\ out[i].id < out[j].id

\* C3: the retained candidates come out in ascending order of |c.time - now|
\* for one single value of now, equal distances keeping input order.
C3_SortedAtOneNow ==
    (mOut.ran /\ ~mOut.threw /\ AllComplete(myRides) /\ AllComplete(candRides)) =>
        \E n \in {mOut.env.now, mOut.env.now + 1} : StablySortedAt(mOut.rides, n)

HasMissingField(r) ==
    r.from.k # "str" \/ r.to.k # "str" \/ r.time.k \in {"null", "undefined"}

Without(s, Drop(_)) == SelectSeq(s, LAMBDA r : ~Drop(r))

\* C4: a ride with a missing from, to or time is non-matching: the match
\* does not throw, no such ride is retained or retains another, and the
\* other candidates are matched as if those rides were absent.
C4_MissingFieldsNeverMatch ==
    mOut.ran =>
        /\ ~mOut.threw
        /\ mOut.rides =
              MatchAndSort(Without(myRides, HasMissingField),
                           Without(candRides, HasMissingField), mOut.env).rides

HasBadTime(r) == r.time.k = "bad"
TypedOrBad(s) ==
    \A i \in DOMAIN s :
        s[i].from.k = "str" /\ s[i].to.k = "str" /\ s[i].time.k \in {"iso", "bad"}

\* C5: a ride whose timestamp does not parse never matches and never makes
\* the match throw; the other candidates are matched as if it were absent.
C5_BadTimestampNeverMatches ==
    (mOut.ran /\ TypedOrBad(myRides) /\ TypedOrBad(candRides)) =>
        /\ ~mOut.threw
        /\ \A i \in DOMAIN mOut.rides : ~HasBadTime(mOut.rides[i])
        /\ mOut.rides =
              MatchAndSort(Without(myRides, HasBadTime),
                           Without(candRides, HasBadTime), mOut.env).rides

\* An unparsable candidate on an own ride's route, next to a retained one.
C5_Witness ==
    /\ mOut.ran /\ TypedOrBad(myRides) /\ TypedOrBad(candRides)
    /\ Len(myRides) = 1 /\ ~HasBadTime(myRides[1])
    /\ Len(candRides) = 2 /\ HasBadTime(candRides[1])
    /\ routeMatches(myRides[1], candRides[1])
    /\ Len(mOut.rides) = 1

(***************************************************************************)
(* Claims about the data cache and fetchData (Spec)                        *)
(***************************************************************************)
FifteenMinutesMs == 15 * 60 * 1000

\* C6: isValid() is true iff a last-fetch timestamp is stored and
\* now - lastFetch < 15 minutes; so it is true in the state a completed
\* write leaves, and false once 15 minutes or more have passed since the
\* last completed write.
C6_ValidIffFresh ==
    /\ isCacheValid(storage, clock) <=>
          /\ storage.LAST_FETCH.present
          /\ clock - storage.LAST_FETCH.v < FifteenMinutesMs
    /\ lastStep.wrote = 2 => isCacheValid(storage, clock)
    /\ (lastWrite.any /\ clock - lastWrite.at >= FifteenMinutesMs)
          => ~isCacheValid(storage, clock)

\* Exactly 15 minutes after a completed write whose timestamp is still
\* stored: no longer valid.
C6_Witness ==
    /\ lastWrite.any /\ storage.LAST_FETCH.present
    /\ clock - lastWrite.at = FifteenMinutesMs
    /\ ~isCacheValid(storage, clock)

\* C7: a refresh that starts while isValid() is true shows the snapshot
\* read() returns and issues no query.
C7_ValidCacheServedWithoutNetwork ==
    (lastStep.op = "start" /\ isCacheValid(storage, clock)) =>
        /\ lastStep.path = "cacheHit"
        /\ lastStep.issued = {}
        /\ Truthy(getCachedData(storage).rides)
        /\ rides = getCachedData(storage).rides.v
        /\ ~loading

\* A refresh served from a cache that holds an empty match list, on a
\* freshly loaded page.
C7_Witness ==
    /\ lastStep.op = "start" /\ lastStep.path = "cacheHit"
    /\ isCacheValid(storage, clock)
    /\ storage.RIDES.v = <<>>
    /\ fetches = <<>>

FailurePaths == {"threw", "profileError", "ridesError"}

\* Storage holds the snapshot of the last completed write, whole.
SnapshotStored ==
    /\ lastWrite.any
    /\ storage.RIDES = JSONStringify(lastWrite.rides)
    /\ storage.PROFILE = JSONStringify(lastWrite.profile)
    /\ storage.LAST_FETCH = NumberToString(lastWrite.at)

\* C8: when the network fetch of a refresh fails, by an exception or by an
\* error result of a query, and storage holds a snapshot, the displayed
\* rides are that snapshot.
C8_FailureFallsBackToSnapshot ==
    (/\ lastStep.op = "return" /\ lastStep.path \in FailurePaths
     /\ SnapshotStored) =>
        rides = getCachedData(storage).rides.v

\* C9: setCacheData is called only after the profile, own-rides and
\* candidate queries have all succeeded, and stores the match result of
\* that fetch; a refresh with a failed query writes nothing.
C9_WriteOnlyAfterThreeSuccesses ==
    (lastStep.op = "return" /\ lastStep.wrote # 0) =>
        /\ lastStep.path = "success"
        /\ lastStep.issued = {"profile", "myRides", "rides"}
        /\ lastStep.myOk
        /\ lastStep.wrote = 2 => storage.RIDES = JSONStringify(rides)

IsEmptyStorage(st) ==
    ~st.RIDES.present /\ ~st.PROFILE.present

\* C10: read() returns null rides and null profile when storage is empty
\* or either value is not JSON, and otherwise the rides and profile of the
\* last completed write.
C10_ReadReturnsLastCompletedWrite ==
    LET r == getCachedData(storage)
    IN  IF IsEmptyStorage(storage) \/ ParseThrows(storage.RIDES)
           \/ ParseThrows(storage.PROFILE)
        THEN r.rides.null /\ r.profile.null
        ELSE /\ lastWrite.any
             /\ r.rides = Some(lastWrite.rides)
             /\ r.profile = Some(lastWrite.profile)

\* C11: a setCacheData call in which a setItem throws leaves the three
\* stored items as they were before the call.
C11_FailedWriteLeavesStorageIntact ==
    [][lastStep'.wrote = 1 => storage' = storage]_vars

\* The lists a fetchData that awaits its candidate query can compute from
\* a successful result of that query.
FreshMatchLists ==
    UNION {
      UNION {
        {MatchAndSort(fetches[i].myRides, res.data, env).rides :
            env \in SortEnvs(clock,
                      Len(FilterMatched(fetches[i].myRides, res.data).rides))} :
        res \in {r \in RidesResults(fetches[i].user, fetches[i].profile.gender) :
                    r.kind = "ok"}} :
      i \in {j \in DOMAIN fetches : fetches[j].pc = "rides"}}

\* C12: a setItem failure inside setCacheData does not reach fetchData: the
\* refresh returns on its success path, shows the list it has just matched
\* and ends loading.
C12_WriteFailureNotPropagated ==
    [][lastStep'.wrote = 1 =>
          /\ lastStep'.op = "return" /\ lastStep'.path = "success"
          /\ ~loading'
          /\ rides' \in FreshMatchLists]_vars

C12_Witness ==
    /\ lastStep.wrote = 1 /\ lastStep.path = "success"
    /\ storage = EmptyStorage
    /\ rides # <<>> /\ ~loading

\* C13: after the refresh button is pressed, online or offline, the three
\* items are absent, so isCacheValid() is false and getCachedData() returns
\* nulls.
C13_RefreshClearsUnconditionally ==
    lastStep.op \in {"buttonOnline", "buttonOffline"} =>
        /\ storage = EmptyStorage
        /\ ~isCacheValid(storage, clock)
        /\ getCachedData(storage) = [rides |-> NullRides, profile |-> NullProfile]

\* C14: every ride shown has the gender of the current user and another
\* user's id.  Stated for the list that fetchData shows on a cache hit for
\* the user it was started for, so that no fetchData of an earlier user is
\* involved.
C14_ShownRidesSameGenderOtherUser ==
    (lastStep.op = "start" /\ lastStep.path = "cacheHit" /\ ~loading) =>
        \A i \in DOMAIN rides :
            /\ rides[i].gender = GenderOf(user)
            /\ rides[i].user_id # user

(***************************************************************************)
(* Claims about the service worker (SpecSW)                                *)
(***************************************************************************)
\* The origin of the request is the worker's own.
SameOrigin(req) == req.url.origin = SelfOrigin
\* The path of the request contains /api/.
ApiPath(req) == PieceIncludesApi(req.url.path)
Handled == swLast.req # NoRequest

\* C15: for a request whose origin is not the worker's own, respondWith is
\* never called and no cache entry is read or written.
C15_CrossOriginUntouched ==
    (Handled /\ ~SameOrigin(swLast.req)) =>
        /\ swLast.op = "fetch"
        /\ ~swLast.respondWith
        /\ ~swLast.read
        /\ ~swLast.put

\* What the page gets when the promise given to respondWith resolved with
\* undefined: a network error, which is how the failure reaches it.
Propagated == Reply("undefined", 0, NoBody)

\* C16: handling a same-origin request whose path contains /api/ never
\* adds or changes a cache entry; the page gets the network response when
\* the network succeeds, and when it fails the entry cached for the same
\* request if there is one, else the failure.
C16_ApiNetworkFirstNoCaching ==
    [][(swLast'.req # NoRequest /\ SameOrigin(swLast'.req) /\ ApiPath(swLast'.req)) =>
          /\ entries' = entries /\ cacheNames' = cacheNames
          /\ swLast'.op \in {"fetch", "settle"} /\ ~swLast'.put
          /\ swLast'.respondWith
          /\ swLast'.op = "settle" =>
                swLast'.reply =
                    IF swLast'.net.ok
                    THEN Reply("network", swLast'.net.status, swLast'.net.body)
                    ELSE IF swLast'.req.method = "GET"
                            /\ entries[Href(swLast'.req.url)] # NoBody
                         THEN Reply("cache", 200, entries[Href(swLast'.req.url)])
                         ELSE Propagated]_vars

C16_Witness ==
    /\ swLast.op = "settle" /\ SameOrigin(swLast.req) /\ ApiPath(swLast.req)
    /\ ~swLast.net.ok /\ swLast.reply = Propagated
    /\ swLast.seen # NoBody
    /\ entries[Href(swLast.req.url)] = NoBody

\* C17: after a successful GET /api/x, a GET /api/x whose network fetch
\* fails gets the body of the first call from the cache.
C17_ApiFailureServesEarlierBody ==
    (/\ swLast.op = "settle" /\ SameOrigin(swLast.req) /\ ApiPath(swLast.req)
     /\ swLast.req.method = "GET" /\ ~swLast.net.ok
     /\ swLast.seen # NoBody) =>
        swLast.reply = Reply("cache", 200, swLast.seen)

C20_OnlyCurrentCacheAfterActivate ==
    /\ worker = "activated" => cacheNames = {CACHE_NAME}
    /\ claimed => (toDelete = {} /\ cacheNames = {CACHE_NAME})

C20_Witness ==
    /\ swLast.op = "claim" /\ worker = "activated" /\ claimed
    /\ cacheNames = {CACHE_NAME} /\ toDelete = {}

StaticStored(cache) == \A k \in StaticKeys : cache[k] # NoBody

\* C21: install succeeds only if every manifest path is stored in the
\* cache CACHE_NAME; skipWaiting is called only with the whole manifest
\* stored, and when a path fails to fetch the install fails and skipWaiting
\* is never called.
C21_InstallOnlyWithWholeManifest ==
    /\ worker \in {"installed", "activating", "activated"} =>
          (CACHE_NAME \in cacheNames /\ StaticStored(entries))
    /\ skippedWaiting => StaticStored(entries)
    /\ worker = "redundant" => (~skippedWaiting /\ ~claimed)
    /\ (worker # "parsed" /\ ~StaticStored(entries)) => worker = "redundant"

C21_Witness ==
    /\ worker = "redundant" /\ swLast.op = "install"
    /\ ~StaticStored(entries) /\ ~skippedWaiting

\* C28: once a same-origin GET that is not an API request has delivered a
\* 200 network response to the page, a fetch of the same request that is
\* dispatched later and fails on the network is served from the cache, in
\* every interleaving with the cache writes.
C28_LaterFailureServedFromCache ==
    (/\ swLast.op = "settle" /\ SameOrigin(swLast.req) /\ ~ApiPath(swLast.req)
     /\ swLast.req.method = "GET" /\ ~swLast.net.ok
     /\ swLast.seen # NoBody) =>
        /\ swLast.reply.kind = "cache"
        /\ swLast.reply.body \in Bodies

\* C26: the match is idempotent: a second run on the same myRides,
\* candidateRides and now, in the same engine, gives the same output as the
\* first, elements and order.
C26_MatchIdempotent ==
    mOut.ran =>
        \A env \in SortEnvs(mNow, Len(FilterMatched(myRides, candRides).rides)) :
            env.argOrder = mOut.env.argOrder =>
                LET again == MatchAndSort(myRides, candRides, env)
                IN  again.threw = mOut.threw /\ again.rides = mOut.rides

\* C27: a fetchData that returns after one started later has returned
\* overwrites neither the displayed rides nor the three stored items.
C27_SupersededFetchDiscarded ==
    [][(lastStep'.op = "return" /\ lastStep'.superseded) =>
          (rides' = rides /\ storage' = storage)]_vars

\* The panels RideList renders for an empty list of matches.
EmptyListPanels == {"You're offline", "No matches found"}

\* C25: when the profile of the current user is missing or has no gender,
\* the match-list refresh shows the user a message instead of ending like a
\* refresh that found no match.
C25_MissingProfileShowsMessage ==
    (lastStep.op = "return" /\ lastStep.path \in {"profileError", "noGender"}) =>
        \A isOnline \in BOOLEAN :
            Panel(loading, rides, isOnline) \notin EmptyListPanels

\* A fetchData has returned in the step that led here.
Returned ==
    \/ lastStep.op = "return"
    \/ lastStep.op = "start" /\ lastStep.path = "cacheHit"

\* C30: every fetchData ends, whichever way it leaves, and loading is false
\* when it has.
C30_FetchEndsNotLoading ==
    /\ [](Returned => ~loading)
    /\ \A n \in 1..MaxFetches : (Len(fetches) = n) ~> (Len(fetches) < n)

C30_Witness ==
    /\ lastStep.op = "return" /\ lastStep.path = "noGender"
    /\ ~loading /\ fetches = <<>> /\ nFetch = MaxFetches

(***************************************************************************)
(* Claims about the pages that change backend rows (SpecPages)             *)
(***************************************************************************)
\* C22: a moderation action of the admin view whose mutation succeeded has,
\* when it ends, an audit_logs row with its action, the acting admin and the
\* target user; one whose mutation failed writes no audit_logs row.
C22_ModerationAudited ==
    [][(lastCall'.op \in ModerationOps /\ lastCall'.step = "end") =>
          IF lastCall'.mutated
          THEN \E k \in DOMAIN tblLogs' :
                 tblLogs'[k] = LogRow(lastCall'.action, lastCall'.user,
                                      lastCall'.target)
          ELSE tblLogs' = tblLogs]_vars

\* C23: a delete request for a ride is sent by MyPosts only for a ride of the
\* signed-in user and by AdminDashboard only for a user with role admin, and
\* no step changes a row of rides that stays in the table.
C23_DeleteOnlyOwnOrAdmin ==
    [][/\ lastCall'.issued = "rides.delete" =>
            \/ lastCall'.op = "handleDelete" /\ lastCall'.target = lastCall'.by
            \/ lastCall'.op = "deleteRide" /\ RoleOf(lastCall'.user) = "admin"
       /\ \A r \in tblRides' : \A q \in tblRides : q.id = r.id => q = r]_vars

\* The error text and the lists the mounted page shows; AdminDashboard has
\* no error state.
ShownError ==
    CASE page = "myposts" -> mp.error
      [] page = "admin" -> NoText
      [] OTHER -> form.error
ShownLists == <<mp.myRides, ad.users, ad.rides>>

\* C24: when a backend mutation of a mounted page fails, the page shows the
\* backend's error text and its lists stay as they were.
C24_MutationErrorShownVerbatim ==
    [][(lastCall'.mutation = "failed" /\ \A k \in DOMAIN calls : calls[k].live) =>
          (ShownError' = BackendMessage /\ ShownLists' = ShownLists)]_vars

\* The rows the mounted page lists.
Displayed ==
    {[ride |-> mp.myRides[k].id, target |-> ""] : k \in DOMAIN mp.myRides} \cup
    {[ride |-> ad.rides[k].id, target |-> ""] : k \in DOMAIN ad.rides} \cup
    {[ride |-> 0, target |-> ad.users[k].user_id] : k \in DOMAIN ad.users}

\* C29: once every handler in flight has completed, no row that a delete of
\* the mounted page has removed from the backend is listed.
C29_DeletedRowsNotListed ==
    calls = <<>> => deleted \cap Displayed = {}

====
